---- MODULE Spec2Model ----
(***************************************************************************)
(* The signaling relay of server/index.js (an Express + Socket.IO server   *)
(* holding an in-memory room -> participants directory) and the React      *)
(* socket room view that talks to it.                                      *)
(*                                                                         *)
(* Socket.IO itself is a library: socket.join / socket.leave /             *)
(* socket.to(room).emit are modelled by what they do to the adapter's      *)
(* room membership.  Every socket is a member of the room named by its own *)
(* id from connection until disconnection, and socket.to(x).emit reaches   *)
(* every connected socket that is a member of room x, the sender excluded. *)
(* Timestamps (createdAt, joinedAt) and console output are left out.       *)
(***************************************************************************)
EXTENDS Integers, Sequences, FiniteSets, TLC

\* ------------------------------------------------------------------ inputs
SocketIds == {"s1", "s2", "s3"}
RoomNames == {"r1", "r2"}
Names     == {"alice", "bob"}
NULL      == "null"
\* data.target is any string the client chooses: a socket id, a room name,
\* or a string that names nothing.
Targets   == SocketIds \cup RoomNames \cup {"nobody"}
SignalKinds == {"webrtc-offer", "webrtc-answer", "webrtc-ice-candidate"}
Payloads  == {"sdp"}

\* events the relay handles in one run
MaxEvents == 6

VARIABLES
    status,          \* socket id -> "fresh" | "connected" | "closed"
    rooms,           \* const rooms = new Map(): room name -> participants (insertion order)
    socketRooms,     \* Socket.IO adapter: socket id -> the rooms it is a member of
    roomName,        \* socket.roomName
    participantName, \* socket.participantName
    sent,            \* what the last handler emitted or answered: set of [to, ev]
    last,            \* the event or HTTP request the server handled last
    joins,           \* history: the [room, name] of the join-room events of a socket
    didLeave,        \* history: the socket has emitted leave-room
    nEvents,         \* history: events handled so far
    clients,         \* the sockets whose other end is the React room view
    phase,           \* client: "unmounted" | "connecting" | "connected" | "left"
    route,           \* client: [roomName, participantName] of the page
    socketState,     \* client: the React state `socket` of the latest render
    effectSocket,    \* client: the `socket` the closures of the mount effect hold
    isLoading,       \* client: the React state `isLoading`
    participants,    \* client: the React state `participants`
    peerConnections, \* client: peerConnectionsRef.current
    timers,          \* client: peers with a pending setTimeout(createOffer)
    c2s,             \* packets in flight, client -> server
    s2c,             \* packets in flight, server -> client
    handled,         \* history: [type, id] of the events a client has handled
    media            \* client: the local stream's tracks and the media controls' state

serverVars == <<status, rooms, socketRooms, roomName, participantName>>
ghostVars  == <<sent, last, joins, didLeave>>
clientVars == <<phase, route, socketState, effectSocket, isLoading, participants, peerConnections, timers, c2s, handled, media>>
vars == <<serverVars, ghostVars, nEvents, clients, clientVars, s2c>>

\* ------------------------------------------------------------- Map helpers
\* A JavaScript Map of participants, kept as the sequence of its values in
\* insertion order; the key of a value is its id.
MapKeys(m) == {m[i].id : i \in DOMAIN m}

MapHas(m, k) == k \in MapKeys(m)

MapGet(m, k) == m[CHOOSE i \in DOMAIN m : m[i].id = k]

\* Map.prototype.set: an existing key keeps its place.
MapSet(m, v) ==
    IF MapHas(m, v.id)
    THEN [i \in DOMAIN m |-> IF m[i].id = v.id THEN v ELSE m[i]]
    ELSE Append(m, v)

\* mutant: the entry is never removed
MapDeleteNothing(m, k) == m

MapDelete(m, k) == SelectSeq(m, LAMBDA p : p.id # k)

\* rooms.delete(name)
RoomsDelete(rs, r) == [x \in DOMAIN rs \ {r} |-> rs[x]]

\* mutant: a room is created anew on every call
getRoomInfoFresh(rs, r) == [x \in DOMAIN rs \cup {r} |-> IF x = r THEN <<>> ELSE rs[x]]

\* getRoomInfo: the directory after the call (the room is created when missing).
getRoomInfo(rs, r) ==
    IF r \in DOMAIN rs THEN rs ELSE rs @@ (r :> <<>>)

\* ------------------------------------------------------- Socket.IO adapter
\* socket.to(room): the connected members of `room` under membership `sr`,
\* the sender excepted.
BroadcastTo(sr, st, room, sender) ==
    {t \in SocketIds : st[t] = "connected" /\ room \in sr[t] /\ t # sender}

\* The transport: events for a socket driven by the React view are queued
\* for it, at most one per handler and recipient; a view that has closed its
\* socket receives nothing more.
Transport(out) ==
    [c \in SocketIds |->
        IF c \in clients /\ phase[c] # "left" /\ \E e \in out : e.to = c
        THEN Append(s2c[c], (CHOOSE e \in out : e.to = c).ev)
        ELSE s2c[c]]

\* The events the server emits.
UserJoined(s, n) == [type |-> "user-joined", id |-> s, name |-> n]

RoomJoined(s, r, list) ==
    [type |-> "room-joined", roomName |-> r, participants |-> list, yourId |-> s]

\* mutant: the name is read from the wrong field
UserLeftWrongName(s) == [type |-> "user-left", id |-> s, name |-> roomName[s]]

UserLeft(s) == [type |-> "user-left", id |-> s, name |-> participantName[s]]

\* mutant: the sender is taken from what the client supplied
ForwardedAsSupplied(kind, payload, s) == [type |-> kind, payload |-> payload, sender |-> payload]

Forwarded(kind, payload, s) == [type |-> kind, payload |-> payload, sender |-> s]

\* mutant: the filter is forgotten
OthersOfAll(ps, s) == ps

\* Array.from(room.participants.values()).filter(p => p.id !== socket.id)
OthersOf(ps, s) == SelectSeq(ps, LAMBDA p : p.id # s)

Event(op, s, r, n, t) == [op |-> op, sock |-> s, room |-> r, name |-> n, target |-> t]

\* ---------------------------------------------------------- server handlers
\* io.on('connection')
OnConnection(s) ==
    /\ status[s] = "fresh"
    /\ status' = [status EXCEPT ![s] = "connected"]
    /\ socketRooms' = [socketRooms EXCEPT ![s] = {s}]
    /\ sent' = {}
    /\ last' = Event("connection", s, NULL, NULL, NULL)
    /\ s2c' = s2c
    /\ UNCHANGED <<rooms, roomName, participantName, joins, didLeave>>

\* socket.on('join-room')
OnJoinRoom(s, r, n) ==
    /\ status[s] = "connected"
    /\ LET rs1   == getRoomInfo(rooms, r)
           ps    == MapSet(rs1[r], [id |-> s, name |-> n])
           sr    == [socketRooms EXCEPT ![s] = @ \cup {r}]
           out   == {[to |-> t, ev |-> UserJoined(s, n)] :
                        t \in BroadcastTo(sr, status, r, s)}
                    \cup {[to |-> s, ev |-> RoomJoined(s, r, OthersOf(ps, s))]}
       IN  /\ rooms' = [rs1 EXCEPT ![r] = ps]
           /\ socketRooms' = sr
           /\ roomName' = [roomName EXCEPT ![s] = r]
           /\ participantName' = [participantName EXCEPT ![s] = n]
           /\ sent' = out
           /\ s2c' = Transport(out)
    /\ last' = Event("join-room", s, r, n, NULL)
    /\ joins' = [joins EXCEPT ![s] = Append(@, [room |-> r, name |-> n])]
    /\ UNCHANGED <<status, didLeave>>

\* mutant: the handler also records the target as the socket's room
OnSignalRecording(s, kind, target, payload) ==
    /\ status[s] = "connected"
    /\ LET out == {[to |-> t, ev |-> Forwarded(kind, payload, s)] :
                      t \in BroadcastTo(socketRooms, status, target, s)}
       IN  /\ sent' = out
           /\ s2c' = Transport(out)
    /\ last' = Event(kind, s, NULL, NULL, target)
    /\ roomName' = [roomName EXCEPT ![s] = target]
    /\ UNCHANGED <<status, rooms, socketRooms, participantName, joins, didLeave>>

\* socket.on('webrtc-offer' | 'webrtc-answer' | 'webrtc-ice-candidate')
OnSignal(s, kind, target, payload) ==
    /\ status[s] = "connected"
    /\ LET out == {[to |-> t, ev |-> Forwarded(kind, payload, s)] :
                      t \in BroadcastTo(socketRooms, status, target, s)}
       IN  /\ sent' = out
           /\ s2c' = Transport(out)
    /\ last' = Event(kind, s, NULL, NULL, target)
    /\ UNCHANGED <<serverVars, joins, didLeave>>

\* socket.on('disconnect'): Socket.IO has taken the socket out of every room
\* before the handler runs.
OnDisconnect(s) ==
    /\ status[s] = "connected"
    /\ LET st == [status EXCEPT ![s] = "closed"]
           sr == [socketRooms EXCEPT ![s] = {}]
           r  == roomName[s]
       IN  /\ status' = st
           /\ socketRooms' = sr
           /\ IF r # NULL /\ r \in DOMAIN rooms
              THEN LET ps  == MapDelete(rooms[r], s)
                       out == {[to |-> t, ev |-> UserLeft(s)] :
                                  t \in BroadcastTo(sr, st, r, s)}
                   IN  /\ rooms' = IF Len(ps) = 0
                                   THEN RoomsDelete(rooms, r)
                                   ELSE [rooms EXCEPT ![r] = ps]
                       /\ sent' = out
                       /\ s2c' = Transport(out)
              ELSE /\ rooms' = rooms
                   /\ sent' = {}
                   /\ s2c' = s2c
    /\ last' = Event("disconnect", s, roomName[s], participantName[s], NULL)
    /\ UNCHANGED <<roomName, participantName, joins, didLeave>>

\* socket.on('leave-room')
OnLeaveRoom(s) ==
    /\ status[s] = "connected"
    /\ LET r == roomName[s]
       IN  IF r # NULL /\ r \in DOMAIN rooms
           THEN LET ps  == MapDelete(rooms[r], s)
                    out == {[to |-> t, ev |-> UserLeft(s)] :
                               t \in BroadcastTo(socketRooms, status, r, s)}
                IN  /\ rooms' = [rooms EXCEPT ![r] = ps]
                    /\ sent' = out
                    /\ s2c' = Transport(out)
                    /\ socketRooms' = [socketRooms EXCEPT ![s] = @ \ {r}]
           ELSE /\ sent' = {}
                /\ s2c' = s2c
                /\ UNCHANGED <<rooms, socketRooms>>
    /\ last' = Event("leave-room", s, roomName[s], participantName[s], NULL)
    /\ didLeave' = [didLeave EXCEPT ![s] = TRUE]
    /\ UNCHANGED <<status, roomName, participantName, joins>>

\* ----------------------------------------------------------------- REST API
\* A request is a method and the segments of its path.  The answer is kept
\* in `sent`, addressed to the HTTP client.
HttpClient == "http"

Response(code, body) ==
    {[to |-> HttpClient, ev |-> [type |-> "response", status |-> code, body |-> body]]}

HttpEvent(method, path) ==
    [op |-> "http", sock |-> NULL, room |-> NULL, name |-> NULL, target |-> NULL,
     method |-> method, path |-> path]

\* Array.from(room.participants.keys())
KeysOf(ps) == [i \in DOMAIN ps |-> ps[i].id]

\* app.get('/health')
GetHealth ==
    /\ sent' = Response(200, [status |-> "OK", type |-> "Socket.IO WebRTC",
                              activeRooms |-> Cardinality(DOMAIN rooms)])
    /\ rooms' = rooms

\* mutant: the room is looked up with getRoomInfo, which creates it
GetRoomCreating(x) ==
    LET rs == getRoomInfo(rooms, x)
    IN  /\ sent' = Response(200, [name |-> x, participantCount |-> Len(rs[x]),
                                  participants |-> KeysOf(rs[x])])
        /\ rooms' = rs

\* app.get('/api/rooms/:roomName')
GetRoom(x) ==
    /\ IF x \notin DOMAIN rooms
       THEN sent' = Response(404, [error |-> "Room not found"])
       ELSE sent' = Response(200, [name |-> x, participantCount |-> Len(rooms[x]),
                                   participants |-> KeysOf(rooms[x])])
    /\ rooms' = rooms

\* app.get('/api/rooms'); the list is kept as a set
GetRooms ==
    /\ sent' = Response(200, {[name |-> x, participantCount |-> Len(rooms[x])] :
                                 x \in DOMAIN rooms})
    /\ rooms' = rooms

\* No route matches: Express answers 404 itself.
NotRouted(method, path) ==
    /\ sent' = Response(404, <<"Cannot", method, path>>)
    /\ rooms' = rooms

\* The router: the routes in the order they are registered.
HttpRequest(method, path) ==
    /\ CASE method = "GET" /\ path = <<"health">> -> GetHealth
         [] method = "GET" /\ Len(path) = 3 /\ SubSeq(path, 1, 2) = <<"api", "rooms">> ->
                GetRoom(path[3])
         [] method = "GET" /\ path = <<"api", "rooms">> -> GetRooms
         [] OTHER -> NotRouted(method, path)
    /\ last' = HttpEvent(method, path)
    /\ s2c' = s2c
    /\ UNCHANGED <<status, socketRooms, roomName, participantName, joins, didLeave>>

\* The requests of a run: the routes of the server, and the two POST
\* requests of components/VideoRoom.tsx.
Requests ==
    {[method |-> "GET", path |-> <<"health">>],
     [method |-> "GET", path |-> <<"api", "rooms">>],
     [method |-> "POST", path |-> <<"api", "rooms", "join">>]}
    \cup {[method |-> "GET", path |-> <<"api", "rooms", r>>] : r \in RoomNames}
    \cup {[method |-> "POST", path |-> <<"api", "rooms", r, "leave">>] : r \in RoomNames}

\* fetch: response.ok
ResponseOk(resp) == resp.status \in 200..299

\* ------------------------------------------------- the relay on its own
\* Sockets driven by arbitrary programs: any event, any payload, any order.
InitServer ==
    /\ status = [s \in SocketIds |-> "fresh"]
    /\ rooms = <<>>
    /\ socketRooms = [s \in SocketIds |-> {}]
    /\ roomName = [s \in SocketIds |-> NULL]
    /\ participantName = [s \in SocketIds |-> NULL]
    /\ sent = {}
    /\ last = Event("none", NULL, NULL, NULL, NULL)
    /\ joins = [s \in SocketIds |-> <<>>]
    /\ didLeave = [s \in SocketIds |-> FALSE]
    /\ nEvents = 0

\* The media of a view before getUserMedia: the controls' state as useState
\* initialises it, no local stream, the screen share control not clicked yet
\* (shareClick is history: the title the control had when last clicked).
NoMedia ==
    [stream |-> FALSE, audio |-> NULL, camera |-> NULL, screen |-> "none",
     isMicEnabled |-> TRUE, isCameraEnabled |-> TRUE, isScreenShareEnabled |-> FALSE,
     shareClick |-> "none"]

\* localStreamRef.current = stream: a new audio and a new camera track, both
\* enabled.
LocalMedia == [NoMedia EXCEPT !.stream = TRUE, !.audio = TRUE, !.camera = TRUE]

InitClients ==
    /\ phase = [c \in SocketIds |-> "unmounted"]
    /\ route = [c \in SocketIds |-> [roomName |-> NULL, participantName |-> NULL]]
    /\ socketState = [c \in SocketIds |-> NULL]
    /\ effectSocket = [c \in SocketIds |-> NULL]
    /\ isLoading = [c \in SocketIds |-> TRUE]
    /\ participants = [c \in SocketIds |-> <<>>]
    /\ peerConnections = [c \in SocketIds |-> <<>>]
    /\ timers = [c \in SocketIds |-> {}]
    /\ c2s = [c \in SocketIds |-> <<>>]
    /\ s2c = [c \in SocketIds |-> <<>>]
    /\ handled = [c \in SocketIds |-> {}]
    /\ media = [c \in SocketIds |-> NoMedia]

Init == InitServer /\ InitClients /\ clients = {}

\* One event from a socket no React view drives, within the budget.
Raw(s) ==
    /\ s \notin clients
    /\ nEvents < MaxEvents
    /\ nEvents' = nEvents + 1
    /\ UNCHANGED <<clients, clientVars>>

RawConnect(s) == Raw(s) /\ OnConnection(s)

RawJoinRoom(s, r, n) == Raw(s) /\ OnJoinRoom(s, r, n)

RawSignal(s, k, t, p) == Raw(s) /\ OnSignal(s, k, t, p)

RawLeaveRoom(s) == Raw(s) /\ OnLeaveRoom(s)

RawDisconnect(s) == Raw(s) /\ OnDisconnect(s)

\* One HTTP request, within the budget.
RawHttp(method, path) ==
    /\ nEvents < MaxEvents
    /\ nEvents' = nEvents + 1
    /\ UNCHANGED <<clients, clientVars>>
    /\ HttpRequest(method, path)

Next ==
    \/ \E s \in SocketIds :
        \/ RawConnect(s)
        \/ \E r \in RoomNames, n \in Names : RawJoinRoom(s, r, n)
        \/ \E k \in SignalKinds, t \in Targets, p \in Payloads : RawSignal(s, k, t, p)
        \/ RawLeaveRoom(s)
        \/ RawDisconnect(s)
    \/ \E q \in Requests : RawHttp(q.method, q.path)

Spec == Init /\ [][Next]_vars

\* ------------------------------------------------------ the React room view
\* new RTCPeerConnection: no description set yet; pc.addTrack puts the
\* camera track of the local stream on the video sender
NewPc == [local |-> NULL, remote |-> NULL, ice |-> FALSE, video |-> "camera"]

\* peerConnectionsRef.current[peerId] = { pc, remoteStream: null }
PutPc(pcs, peerId) ==
    [x \in DOMAIN pcs \cup {peerId} |-> IF x = peerId THEN NewPc ELSE pcs[x]]

\* delete peerConnectionsRef.current[id]
DropPc(pcs, peerId) == [x \in DOMAIN pcs \ {peerId} |-> pcs[x]]

RECURSIVE PutPcs(_, _)
\* data.participants.forEach(p => createPeerConnection(p.id, true))
PutPcs(pcs, list) ==
    IF list = <<>> THEN pcs ELSE PutPcs(PutPc(pcs, Head(list).id), Tail(list))

\* what an event tells its receiver, as [type, id] pairs
Mentions(e) ==
    CASE e.type = "room-joined" ->
            {[type |-> "room-joined", id |-> e.yourId]}
            \cup {[type |-> "listed", id |-> e.participants[i].id] : i \in DOMAIN e.participants}
      [] e.type \in {"user-joined", "user-left"} -> {[type |-> e.type, id |-> e.id]}
      [] OTHER -> {[type |-> e.type, id |-> e.sender]}

\* searchParams.get('participant') || 'Anonymous': the name a view was opened with
ViewName(c) == IF c = "s2" THEN "bob" ELSE "alice"

\* initializeRoom up to setSocket(newSocket): the effect runs once, after the
\* first render, so the handlers it registers close over that render's
\* `socket`; setSocket changes the state later renders see.
Mount(c, r) ==
    /\ c \in clients
    /\ phase[c] = "unmounted"
    /\ phase' = [phase EXCEPT ![c] = "connecting"]
    /\ route' = [route EXCEPT ![c] = [roomName |-> r, participantName |-> ViewName(c)]]
    /\ effectSocket' = [effectSocket EXCEPT ![c] = socketState[c]]
    /\ socketState' = [socketState EXCEPT ![c] = c]
    /\ media' = [media EXCEPT ![c] = LocalMedia]
    /\ UNCHANGED <<serverVars, ghostVars, nEvents, clients, isLoading, participants,
                   peerConnections, timers, c2s, s2c, handled>>

\* The connection is made: the server runs io.on('connection') and the
\* client's 'connect' handler emits join-room.
ClientConnect(c) ==
    /\ c \in clients
    /\ phase[c] = "connecting"
    /\ OnConnection(c)
    /\ phase' = [phase EXCEPT ![c] = "connected"]
    /\ c2s' = [c2s EXCEPT ![c] = Append(@, [type |-> "join-room",
                                             roomName |-> route[c].roomName,
                                             participantName |-> route[c].participantName])]
    /\ UNCHANGED <<nEvents, clients, route, socketState, effectSocket, isLoading,
                   participants, peerConnections, timers, handled, media>>

\* The server takes the next packet of a client's connection.
ServerRecv(c) ==
    /\ c \in clients
    /\ c2s[c] # <<>>
    /\ LET m == Head(c2s[c])
       IN  CASE m.type = "join-room"  -> OnJoinRoom(c, m.roomName, m.participantName)
             [] m.type = "leave-room" -> OnLeaveRoom(c)
             [] m.type = "disconnect" -> OnDisconnect(c)
             [] OTHER                 -> OnSignal(c, m.type, m.target, m.payload)
    /\ c2s' = [c2s EXCEPT ![c] = Tail(@)]
    /\ UNCHANGED <<nEvents, clients, phase, route, socketState, effectSocket, isLoading,
                   participants, peerConnections, timers, handled, media>>

\* newSocket.on('room-joined')
RoomJoinedHandler(c, e) ==
    /\ participants' = [participants EXCEPT ![c] = e.participants]
    /\ isLoading' = [isLoading EXCEPT ![c] = FALSE]
    /\ peerConnections' = [peerConnections EXCEPT ![c] = PutPcs(@, e.participants)]
    /\ timers' = [timers EXCEPT ![c] = @ \cup {e.participants[i].id : i \in DOMAIN e.participants}]
    /\ c2s' = c2s

\* mutant: the newcomer is not added to the list
UserJoinedHandlerForgets(c, e) ==
    /\ participants' = participants
    /\ peerConnections' = [peerConnections EXCEPT ![c] = PutPc(@, e.id)]
    /\ c2s' = c2s
    /\ UNCHANGED <<isLoading, timers>>

\* newSocket.on('user-joined')
UserJoinedHandler(c, e) ==
    /\ participants' = [participants EXCEPT ![c] =
                           IF MapHas(@, e.id) THEN @ ELSE Append(@, [id |-> e.id, name |-> e.name])]
    /\ peerConnections' = [peerConnections EXCEPT ![c] = PutPc(@, e.id)]
    /\ c2s' = c2s
    /\ UNCHANGED <<isLoading, timers>>

\* newSocket.on('user-left')
UserLeftHandler(c, e) ==
    /\ participants' = [participants EXCEPT ![c] = MapDelete(@, e.id)]
    /\ peerConnections' = [peerConnections EXCEPT ![c] = DropPc(@, e.id)]
    /\ c2s' = c2s
    /\ UNCHANGED <<isLoading, timers>>

\* handleOffer: setRemoteDescription, createAnswer, setLocalDescription, emit
handleOffer(c, offer, senderId) ==
    IF senderId \notin DOMAIN peerConnections[c] \/ effectSocket[c] = NULL
    THEN UNCHANGED <<peerConnections, c2s>>
    ELSE /\ peerConnections' = [peerConnections EXCEPT ![c][senderId] =
                                   [@ EXCEPT !.remote = "offer", !.local = "answer"]]
         /\ c2s' = [c2s EXCEPT ![c] = Append(@, [type |-> "webrtc-answer",
                                                  target |-> senderId, payload |-> "sdp"])]

\* handleAnswer: setRemoteDescription
handleAnswer(c, answer, senderId) ==
    /\ peerConnections' =
          IF senderId \notin DOMAIN peerConnections[c]
          THEN peerConnections
          ELSE [peerConnections EXCEPT ![c][senderId].remote = "answer"]
    /\ c2s' = c2s

\* mutant: a connection is made for a sender that has none
handleIceCandidateUnguarded(c, candidate, senderId) ==
    /\ peerConnections' =
          [peerConnections EXCEPT ![c] =
              [PutPc(@, senderId) EXCEPT ![senderId].ice = TRUE]]
    /\ c2s' = c2s

\* handleIceCandidate: addIceCandidate
handleIceCandidate(c, candidate, senderId) ==
    /\ peerConnections' =
          IF senderId \notin DOMAIN peerConnections[c]
          THEN peerConnections
          ELSE [peerConnections EXCEPT ![c][senderId].ice = TRUE]
    /\ c2s' = c2s

\* The client takes the next event of its connection.
ClientRecv(c) ==
    /\ c \in clients
    /\ phase[c] = "connected"
    /\ s2c[c] # <<>>
    /\ LET e == Head(s2c[c])
       IN  /\ CASE e.type = "room-joined" -> RoomJoinedHandler(c, e)
                [] e.type = "user-joined" -> UserJoinedHandler(c, e)
                [] e.type = "user-left"   -> UserLeftHandler(c, e)
                [] e.type = "webrtc-offer" ->
                      handleOffer(c, e.payload, e.sender)
                      /\ UNCHANGED <<participants, isLoading, timers>>
                [] e.type = "webrtc-answer" ->
                      handleAnswer(c, e.payload, e.sender)
                      /\ UNCHANGED <<participants, isLoading, timers>>
                [] OTHER ->
                      handleIceCandidate(c, e.payload, e.sender)
                      /\ UNCHANGED <<participants, isLoading, timers>>
           /\ handled' = [handled EXCEPT ![c] = @ \cup Mentions(e)]
    /\ s2c' = [s2c EXCEPT ![c] = Tail(@)]
    /\ UNCHANGED <<serverVars, ghostVars, nEvents, clients, phase, route, socketState,
                   effectSocket, media>>

\* setTimeout(() => createOffer(peerId), 100) fires: createOffer
createOffer(c, peerId) ==
    /\ c \in clients
    /\ phase[c] = "connected"
    /\ peerId \in timers[c]
    /\ timers' = [timers EXCEPT ![c] = @ \ {peerId}]
    /\ IF peerId \notin DOMAIN peerConnections[c] \/ effectSocket[c] = NULL
       THEN UNCHANGED <<peerConnections, c2s>>
       ELSE /\ peerConnections' = [peerConnections EXCEPT ![c][peerId].local = "offer"]
            /\ c2s' = [c2s EXCEPT ![c] = Append(@, [type |-> "webrtc-offer",
                                                     target |-> peerId, payload |-> "sdp"])]
    /\ UNCHANGED <<serverVars, ghostVars, nEvents, clients, phase, route, socketState,
                   effectSocket, isLoading, participants, s2c, handled, media>>

\* handleLeaveRoom, from the controls the view shows once isLoading is false:
\* emit leave-room, disconnect, navigate away (the unmount closes the peer
\* connections and the pending timers find none).
handleLeaveRoom(c) ==
    /\ c \in clients
    /\ phase[c] = "connected"
    /\ ~isLoading[c]
    /\ c2s' = [c2s EXCEPT ![c] =
                  IF socketState[c] # NULL
                  THEN @ \o <<[type |-> "leave-room"], [type |-> "disconnect"]>>
                  ELSE @]
    /\ phase' = [phase EXCEPT ![c] = "left"]
    /\ peerConnections' = [peerConnections EXCEPT ![c] = <<>>]
    /\ timers' = [timers EXCEPT ![c] = {}]
    /\ s2c' = [s2c EXCEPT ![c] = <<>>]
    /\ UNCHANGED <<serverVars, ghostVars, nEvents, clients, route, socketState,
                   effectSocket, isLoading, participants, handled, media>>

\* ------------------------------------------------------ the media controls
\* The controls are rendered once isLoading is false.
ControlsShown(c) ==
    /\ c \in clients
    /\ phase[c] = "connected"
    /\ ~isLoading[c]

\* sender.replaceTrack(track) on the video sender of every peer connection
ReplaceTracks(pcs, track) == [p \in DOMAIN pcs |-> [pcs[p] EXCEPT !.video = track]]

\* toggleMicrophone on media m: the track is flipped and the state follows it
MicToggled(m) ==
    IF m.stream
    THEN [m EXCEPT !.audio = ~m.audio, !.isMicEnabled = ~m.audio]
    ELSE m

\* mutant: the state is set and the track is left alone
CamToggledStateOnly(m, pcs) ==
    IF m.stream THEN [m EXCEPT !.isCameraEnabled = ~m.isCameraEnabled] ELSE m

\* toggleCamera on media m with peer connections pcs: the new value is the
\* negated state; it is given to the camera track and to the track of every
\* video sender, which is the screen track while the screen is shared.
CamToggled(m, pcs) ==
    IF m.stream
    THEN LET newEnabled == ~m.isCameraEnabled
         IN  [m EXCEPT !.camera = newEnabled,
                       !.isCameraEnabled = newEnabled,
                       !.screen = IF m.screen # "none" /\ \E p \in DOMAIN pcs : pcs[p].video = "screen"
                                  THEN (IF newEnabled THEN "on" ELSE "off")
                                  ELSE m.screen]
    ELSE m

\* The rest of the state of a click on a media control.
MediaFrame ==
    UNCHANGED <<serverVars, ghostVars, nEvents, clients, phase, route, socketState,
                effectSocket, isLoading, participants, timers, c2s, s2c, handled>>

\* onClick={toggleMicrophone}
toggleMicrophone(c) ==
    /\ ControlsShown(c)
    /\ media' = [media EXCEPT ![c] = MicToggled(@)]
    /\ UNCHANGED peerConnections
    /\ MediaFrame

\* onClick={toggleCamera}
toggleCamera(c) ==
    /\ ControlsShown(c)
    /\ media' = [media EXCEPT ![c] = CamToggled(@, peerConnections[c])]
    /\ UNCHANGED peerConnections
    /\ MediaFrame

\* onClick={toggleScreenShare}; getDisplayMedia resolves with a new screen
\* track (granted) or rejects.  Only the branch for a screen that is not
\* shared exists.
toggleScreenShare(c, granted) ==
    /\ ControlsShown(c)
    /\ LET title == IF media[c].isScreenShareEnabled THEN "Stop screen share" ELSE "Share screen"
       IN  IF ~media[c].isScreenShareEnabled /\ granted
           THEN /\ peerConnections' = [peerConnections EXCEPT ![c] = ReplaceTracks(@, "screen")]
                /\ media' = [media EXCEPT ![c] =
                                [@ EXCEPT !.screen = "on", !.isScreenShareEnabled = TRUE,
                                          !.shareClick = title]]
           ELSE /\ peerConnections' = peerConnections
                /\ media' = [media EXCEPT ![c].shareClick = title]
    /\ MediaFrame

\* videoTrack.onended: the browser's own control ends the screen track
screenTrackEnded(c) ==
    /\ ControlsShown(c)
    /\ media[c].screen # "none"
    /\ media' = [media EXCEPT ![c] = [@ EXCEPT !.screen = "none", !.isScreenShareEnabled = FALSE]]
    /\ peerConnections' =
          IF media[c].stream
          THEN [peerConnections EXCEPT ![c] = ReplaceTracks(@, "camera")]
          ELSE peerConnections
    /\ MediaFrame

InitRoomViews == InitServer /\ InitClients /\ clients = SocketIds

NextRoomViews ==
    \E c \in SocketIds :
        \/ \E r \in RoomNames : Mount(c, r)
        \/ ClientConnect(c)
        \/ ServerRecv(c)
        \/ ClientRecv(c)
        \/ \E p \in SocketIds : createOffer(c, p)
        \/ handleLeaveRoom(c)

\* Messages on a connection are delivered, and timers and promise
\* continuations run; what the user does (open the page, leave) is not forced.
Fairness ==
    \A c \in SocketIds :
        /\ WF_vars(ClientConnect(c))
        /\ WF_vars(ServerRecv(c))
        /\ WF_vars(ClientRecv(c))
        /\ WF_vars(\E p \in SocketIds : createOffer(c, p))

FairSpec == InitRoomViews /\ [][NextRoomViews]_vars /\ Fairness

\* ------------------------------------------- a room view among other sockets
\* One room view shares the relay with sockets that arbitrary programs
\* drive.
Views == {"s1"}

\* events of the other sockets in one run
MaxForeign == 4

InitMixed == InitServer /\ InitClients /\ clients = Views

ForeignConnect(s) == nEvents < MaxForeign /\ RawConnect(s)

ForeignJoinRoom(s, r, n) == nEvents < MaxForeign /\ RawJoinRoom(s, r, n)

ForeignSignal(s, k, t, p) == nEvents < MaxForeign /\ RawSignal(s, k, t, p)

ForeignLeaveRoom(s) == nEvents < MaxForeign /\ RawLeaveRoom(s)

ForeignDisconnect(s) == nEvents < MaxForeign /\ RawDisconnect(s)

NextMixed ==
    \/ \E c \in SocketIds :
        \/ \E r \in RoomNames : Mount(c, r)
        \/ ClientConnect(c)
        \/ ServerRecv(c)
        \/ ClientRecv(c)
        \/ \E p \in SocketIds : createOffer(c, p)
        \/ handleLeaveRoom(c)
    \/ \E s \in SocketIds :
        \/ ForeignConnect(s)
        \/ \E r \in RoomNames, n \in Names : ForeignJoinRoom(s, r, n)
        \/ \E k \in SignalKinds, t \in Targets, p \in Payloads : ForeignSignal(s, k, t, p)
        \/ ForeignLeaveRoom(s)
        \/ ForeignDisconnect(s)

MixedSpec == InitMixed /\ [][NextMixed]_vars

\* --------------------------------------------- a room view and its controls
\* The room view with its media controls, among sockets that join and leave
\* under a name of their own.
NextMedia ==
    \/ \E c \in SocketIds :
        \/ \E r \in RoomNames : Mount(c, r)
        \/ ClientConnect(c)
        \/ ServerRecv(c)
        \/ ClientRecv(c)
        \/ \E p \in SocketIds : createOffer(c, p)
        \/ handleLeaveRoom(c)
        \/ toggleMicrophone(c)
        \/ toggleCamera(c)
        \/ \E granted \in BOOLEAN : toggleScreenShare(c, granted)
        \/ screenTrackEnded(c)
    \/ \E s \in SocketIds :
        \/ ForeignConnect(s)
        \/ \E r \in RoomNames : ForeignJoinRoom(s, r, ViewName(s))
        \/ ForeignLeaveRoom(s)
        \/ ForeignDisconnect(s)

MediaSpec == InitMixed /\ [][NextMedia]_vars

\* ------------------------------------------------------------------ claims
Recipients == {e.to : e \in sent}

IsSignal == last.op \in SignalKinds

\* socket t is connected and a member of Socket.IO room r
JoinedTo(t, r) == status[t] = "connected" /\ r \in socketRooms[t]

\* C1: every id stored in a room's participants map is the id of a connected
\* socket that joined the room and has neither left it nor disconnected.
C1_ParticipantsAreConnected ==
    \A r \in DOMAIN rooms : \A id \in MapKeys(rooms[r]) : JoinedTo(id, r)

\* C2: a signaling message with target T is delivered to the connection whose
\* id is T and to no other connection, whatever T is (a target equal to the
\* sender's own id is left aside).
C2_ForwardedToTargetOnly ==
    IsSignal =>
        /\ Recipients \subseteq {last.target}
        /\ (last.target \in SocketIds /\ last.target # last.sock
                /\ status[last.target] = "connected")
           => Recipients = {last.target}

\* C3: when a socket that joined exactly one room R (one join-room, no
\* leave-room) disconnects, its id is gone from R's participants and every
\* other socket still joined to R is sent user-left with its id and name.
C3_DisconnectNotifiesRoom ==
    (last.op = "disconnect" /\ Len(joins[last.sock]) = 1 /\ ~didLeave[last.sock]) =>
        LET s == last.sock
            R == joins[s][1].room
        IN  /\ (R \in DOMAIN rooms => ~MapHas(rooms[R], s))
            /\ \A t \in SocketIds \ {s} :
                  JoinedTo(t, R) =>
                      /\ [to |-> t,
                          ev |-> [type |-> "user-left", id |-> s,
                                  name |-> joins[s][1].name]] \in sent
                      /\ Cardinality({e \in sent : e.to = t}) = 1

C3_Witness ==
    /\ last.op = "disconnect"
    /\ Len(joins[last.sock]) = 1
    /\ ~didLeave[last.sock]
    /\ \E t \in SocketIds \ {last.sock} :
          /\ JoinedTo(t, joins[last.sock][1].room)
          /\ \E e \in sent : e.to = t /\ e.ev.type = "user-left" /\ e.ev.id = last.sock

\* C5: after join-room(roomName, participantName) from S the directory holds
\* a room roomName whose participants map has an entry for S with that name;
\* a room that existed is reused: the entries of the other sockets stay.
C5_JoinRegisters ==
    [][last'.op = "join-room" =>
          LET s == last'.sock
              r == last'.room
          IN  /\ r \in DOMAIN rooms'
              /\ MapHas(rooms'[r], s)
              /\ MapGet(rooms'[r], s) = [id |-> s, name |-> last'.name]
              /\ \A x \in DOMAIN rooms : x \in DOMAIN rooms'
              /\ r \in DOMAIN rooms =>
                    \A i \in DOMAIN rooms[r] :
                        rooms[r][i].id # s =>
                            \E j \in DOMAIN rooms'[r] : rooms'[r][j] = rooms[r][i]
    ]_vars

\* a join into a room that already held another socket's entry
C5_Witness ==
    /\ last.op = "join-room"
    /\ Len(rooms[last.room]) >= 2
    /\ MapGet(rooms[last.room], last.sock).name = last.name

\* C6: room-joined sent to the joining socket S carries yourId = S and a
\* participants list that is exactly the entries of the room's map at the
\* time of the join minus S's own entry.
C6_RoomJoinedListsOthers ==
    last.op = "join-room" =>
        LET s  == last.sock
            ps == rooms[last.room]
            mine == {e \in sent : e.to = s}
        IN  /\ Cardinality(mine) = 1
            /\ \A e \in mine :
                  /\ e.ev.type = "room-joined"
                  /\ e.ev.yourId = s
                  /\ e.ev.roomName = last.room
                  /\ {e.ev.participants[i] : i \in DOMAIN e.ev.participants}
                        = {ps[i] : i \in {j \in DOMAIN ps : ps[j].id # s}}
                  /\ Len(e.ev.participants) = Len(ps) - 1
                  /\ \A i \in DOMAIN e.ev.participants : e.ev.participants[i].id # s

C6_Witness ==
    /\ last.op = "join-room"
    /\ \E e \in sent :
          /\ e.to = last.sock
          /\ e.ev.type = "room-joined"
          /\ Len(e.ev.participants) >= 1

\* C7: on join-room(R) by S every other socket listed in R's participants
\* is sent exactly one user-joined with S's id and name, and S is sent none.
C7_UserJoinedToListed ==
    last.op = "join-room" =>
        LET s == last.sock
            uj == {e \in sent : e.ev.type = "user-joined"}
        IN  /\ \A t \in MapKeys(rooms[last.room]) \ {s} :
                  /\ [to |-> t, ev |-> [type |-> "user-joined", id |-> s,
                                         name |-> last.name]] \in sent
                  /\ Cardinality({e \in uj : e.to = t}) = 1
            /\ \A e \in uj : e.to # s

\* C8: the directory holds no room whose participants map is empty.
C8_NoEmptyRoom == \A r \in DOMAIN rooms : Len(rooms[r]) > 0

\* C10: a signaling message whose target is not the id of a connected socket
\* is delivered to no connection (and the sender is sent nothing).
C10_UnknownTargetDropped ==
    (IsSignal /\ ~(last.target \in SocketIds /\ status[last.target] = "connected"))
        => sent = {}

\* a and b are both listed in the same room of the directory
BothJoined(a, b) ==
    \E r \in DOMAIN rooms : MapHas(rooms[r], a) /\ MapHas(rooms[r], b)

\* each end holds a peer connection for the other with a remote description set
Established(a, b) ==
    /\ b \in DOMAIN peerConnections[a]
    /\ a \in DOMAIN peerConnections[b]
    /\ peerConnections[a][b].remote # NULL
    /\ peerConnections[b][a].remote # NULL

\* C4: two room views that join the same room and stay connected eventually
\* complete the offer/answer exchange: both ends have a remote description.
C4_PeersEventuallyNegotiate ==
    \A a \in SocketIds : \A b \in SocketIds \ {a} :
        BothJoined(a, b) ~> (Established(a, b) \/ phase[a] = "left" \/ phase[b] = "left")

\* m has been told that c is in its room (by room-joined or user-joined)
ToldAbout(m, c) ==
    \E x \in handled[m] \cup UNION {Mentions(s2c[m][i]) : i \in DOMAIN s2c[m]} :
        x.id = c /\ x.type \in {"listed", "user-joined"}

\* the server has finished with a view that left
LeftDone(c) ==
    LET R == route[c].roomName
    IN  /\ \A r \in DOMAIN rooms : ~MapHas(rooms[r], c)
        /\ (R \in DOMAIN rooms => Len(rooms[R]) > 0)
        /\ \A m \in SocketIds \ {c} :
              (R \in DOMAIN rooms /\ MapHas(rooms[R], m) /\ ToldAbout(m, c))
                  => [type |-> "user-left", id |-> c] \in handled[m]

\* C9: after a joined view invokes handleLeaveRoom, eventually no room lists
\* its socket, its room is gone from the directory if it became empty, and
\* every remaining member of the room has received user-left for it.
C9_LeaveEventuallyClean ==
    \A c \in SocketIds : (phase[c] = "left") ~> LeftDone(c)

C9_Witness ==
    \E c \in SocketIds : \E m \in SocketIds \ {c} :
        /\ phase[c] = "left"
        /\ LeftDone(c)
        /\ route[c].roomName \in DOMAIN rooms
        /\ MapHas(rooms[route[c].roomName], m)
        /\ [type |-> "user-left", id |-> c] \in handled[m]

\* ------------------------------------------------------------ REST claims
\* The last step handled the HTTP request `method path`.
Answered(method, path) ==
    /\ last.op = "http"
    /\ last.method = method
    /\ last.path = path

\* The answer of the last request.
TheResponse == (CHOOSE e \in sent : e.to = HttpClient).ev

\* C11: GET /api/rooms/:roomName for a name that is not in the directory
\* answers 404 'Room not found' and does not create the room; for a name in
\* the directory it answers participantCount = the size of the room's
\* participants map and participants = its keys, and the directory is left
\* as it was.
C11_GetRoomReadsDirectory ==
    [][\A x \in RoomNames :
          (nEvents' # nEvents /\ last'.op = "http" /\ last'.method = "GET"
             /\ last'.path = <<"api", "rooms", x>>)
          => /\ rooms' = rooms
             /\ Cardinality(sent') = 1
             /\ \A e \in sent' :
                   /\ e.to = HttpClient
                   /\ IF x \notin DOMAIN rooms
                      THEN /\ e.ev.status = 404
                           /\ e.ev.body = [error |-> "Room not found"]
                      ELSE /\ e.ev.status = 200
                           /\ e.ev.body.participantCount = Cardinality(MapKeys(rooms[x]))
                           /\ {e.ev.body.participants[i] : i \in DOMAIN e.ev.body.participants}
                                 = MapKeys(rooms[x])
                           /\ Len(e.ev.body.participants) = e.ev.body.participantCount
    ]_vars

\* A room with two participants has been asked for.
C11_Witness ==
    \E x \in RoomNames :
        /\ Answered("GET", <<"api", "rooms", x>>)
        /\ x \in DOMAIN rooms
        /\ TheResponse.status = 200
        /\ TheResponse.body.participantCount = 2

\* C12: the backend answers POST /api/rooms/join and
\* POST /api/rooms/:roomName/leave with a success status, so that joinRoom of
\* the LiveKit room view does not take its error path on the status.
C12_PostRoutesAnswered ==
    /\ Answered("POST", <<"api", "rooms", "join">>) => ResponseOk(TheResponse)
    /\ \A r \in RoomNames :
          Answered("POST", <<"api", "rooms", r, "leave">>) => ResponseOk(TheResponse)

\* ------------------------------------------------------- departure claims
\* C13: for each departure of a participant from a room (leave-room,
\* disconnect, or leave-room followed by disconnect) every remaining member
\* of the room receives exactly one user-left for that participant, and no
\* user-left is sent for a socket that the room does not list at that moment.
C13_UserLeftOncePerDeparture ==
    [][\A s \in SocketIds :
          (nEvents' # nEvents /\ last'.op \in {"leave-room", "disconnect"} /\ last'.sock = s)
          => LET r      == last'.room
                 listed == r # NULL /\ r \in DOMAIN rooms /\ MapHas(rooms[r], s)
                 told   == {e.to : e \in {x \in sent' : x.ev.type = "user-left" /\ x.ev.id = s}}
             IN  /\ ~listed => told = {}
                 /\ listed => told = {t \in MapKeys(rooms[r]) \ {s} : status[t] = "connected"}
                 /\ \A e \in sent' : e.ev.type = "user-left" /\ e.ev.id = s
    ]_vars

\* ------------------------------------------------------ negotiation claims
\* View c has created and sent an offer for p: setLocalDescription(offer)
\* and the emit of webrtc-offer happen together in createOffer.
Offered(c, p) ==
    /\ p \in DOMAIN peerConnections[c]
    /\ peerConnections[c][p].local = "offer"

\* The timer that view c set for p has run while c held a connection for p.
OfferDue(c, p) ==
    /\ [type |-> "listed", id |-> p] \in handled[c]
    /\ phase[c] = "connected"
    /\ p \notin timers[c]
    /\ p \in DOMAIN peerConnections[c]

\* C14: a view that has received room-joined listing p emits a webrtc-offer
\* with target p, its socket staying connected: once the timer set for p has
\* run, the offer has been made.
C14_OffersListedPeers ==
    \A c \in SocketIds, p \in SocketIds : OfferDue(c, p) => Offered(c, p)

\* Views a and b hold a connection for each other and no offer timer for
\* the other is pending.
Paired(a, b) ==
    /\ phase[a] = "connected" /\ phase[b] = "connected"
    /\ b \in DOMAIN peerConnections[a] /\ b \notin timers[a]
    /\ a \in DOMAIN peerConnections[b] /\ a \notin timers[b]

\* C16: of two participants of a room exactly one is the initiator of their
\* pair: the later joiner (the one whose room-joined lists the other) creates
\* the offer and the earlier one only answers; never both send an offer.
C16_OneInitiator ==
    \A a \in SocketIds : \A b \in SocketIds \ {a} :
        /\ ~([type |-> "listed", id |-> b] \in handled[a]
               /\ [type |-> "listed", id |-> a] \in handled[b])
        /\ ~(Offered(a, b) /\ Offered(b, a))
        /\ Offered(a, b) => [type |-> "listed", id |-> b] \in handled[a]
        /\ Paired(a, b) => (Offered(a, b) \/ Offered(b, a))

\* ------------------------------------------------ claims on signal handling
\* The step is view c handling the first event of its connection.
Handles(c) ==
    /\ c \in clients
    /\ phase[c] = "connected" /\ phase'[c] = "connected"
    /\ s2c[c] # <<>>
    /\ s2c'[c] = Tail(s2c[c])

\* C15: a view that receives webrtc-offer from X while it holds a peer
\* connection for X sets the offer as the remote description and then emits
\* exactly one webrtc-answer with target X.
C15_OfferAnswered ==
    [][\A c \in SocketIds :
          (Handles(c) /\ Head(s2c[c]).type = "webrtc-offer"
             /\ Head(s2c[c]).sender \in DOMAIN peerConnections[c])
          => LET x == Head(s2c[c]).sender
             IN  /\ x \in DOMAIN peerConnections'[c]
                 /\ peerConnections'[c][x].remote = "offer"
                 /\ c2s'[c] = Append(c2s[c], [type |-> "webrtc-answer", target |-> x,
                                              payload |-> "sdp"])
    ]_vars

\* C17: every webrtc-offer from X that a view handles comes after the view
\* has handled user-joined for X, so the view holds a peer connection for X.
C17_OfferAfterUserJoined ==
    [][\A c \in SocketIds :
          (Handles(c) /\ Head(s2c[c]).type = "webrtc-offer")
          => /\ [type |-> "user-joined", id |-> Head(s2c[c]).sender] \in handled[c]
             /\ Head(s2c[c]).sender \in DOMAIN peerConnections[c]
    ]_vars

\* C18: a view that receives webrtc-offer, webrtc-answer or
\* webrtc-ice-candidate from a sender it holds no peer connection for drops
\* the message: it emits nothing and changes neither its participants list
\* nor its table of peer connections.
C18_UnknownSenderDropped ==
    [][\A c \in SocketIds :
          (Handles(c) /\ Head(s2c[c]).type \in SignalKinds
             /\ Head(s2c[c]).sender \notin DOMAIN peerConnections[c])
          => /\ c2s' = c2s
             /\ participants' = participants
             /\ peerConnections' = peerConnections
             /\ timers' = timers
    ]_vars

\* A view has handled each kind of message from a sender it never heard of.
C18_Witness ==
    \E c \in clients, x \in SocketIds :
        /\ \A k \in SignalKinds : [type |-> k, id |-> x] \in handled[c]
        /\ [type |-> "user-joined", id |-> x] \notin handled[c]
        /\ [type |-> "listed", id |-> x] \notin handled[c]
        /\ phase[c] = "connected"

\* ------------------------------------------------- claims on the forwarding
\* C19: the sender field of every webrtc-offer, webrtc-answer and
\* webrtc-ice-candidate the server delivers is the id of the socket that
\* emitted it, whatever that socket supplied.
C19_SenderIsEmitter ==
    IsSignal => \A e \in sent : e.ev.type = last.op /\ e.ev.sender = last.sock

\* A message has been delivered to two sockets at once.
C19_Witness ==
    /\ IsSignal
    /\ Cardinality(Recipients) = 2
    /\ \A e \in sent : e.ev.sender = last.sock

\* C20: the server delivers a signaling message from S to T only if S and T
\* are participants of the same room.
C20_ForwardedWithinRoom ==
    IsSignal =>
        \A t \in Recipients :
            \E r \in DOMAIN rooms : MapHas(rooms[r], last.sock) /\ MapHas(rooms[r], t)

\* ---------------------------------------------------- claims on the directory
\* C21: handling webrtc-offer, webrtc-answer or webrtc-ice-candidate leaves
\* the rooms directory, every room's participants map and every socket's
\* recorded roomName and participantName unchanged.
C21_SignalsLeaveDirectory ==
    [][(last'.op \in SignalKinds /\ <<last, sent, nEvents>>' # <<last, sent, nEvents>>)
          => /\ rooms' = rooms
             /\ roomName' = roomName
             /\ participantName' = participantName
    ]_vars

\* A message has been forwarded by a socket that is in a room of two.
C21_Witness ==
    /\ IsSignal
    /\ Recipients # {}
    /\ roomName[last.sock] \in DOMAIN rooms
    /\ Len(rooms[roomName[last.sock]]) = 2
    /\ MapHas(rooms[roomName[last.sock]], last.sock)

\* C22: each connected socket id is in the participants map of at most one
\* room, also after the socket has emitted join-room for a second room.
C22_AtMostOneRoom ==
    \A s \in SocketIds :
        status[s] = "connected"
        => Cardinality({r \in DOMAIN rooms : MapHas(rooms[r], s)}) <= 1

\* -------------------------------------------------- the views' participants
\* Nothing is in flight on any connection.
Quiescent == \A c \in SocketIds : c2s[c] = <<>> /\ s2c[c] = <<>>

\* View c is connected and has handled its room-joined.
InRoom(c) ==
    /\ c \in clients
    /\ phase[c] = "connected"
    /\ [type |-> "room-joined", id |-> c] \in handled[c]

\* the ids in the server's participants map of room r
Listed(r) == IF r \in DOMAIN rooms THEN MapKeys(rooms[r]) ELSE {}

\* C23: whenever every event sent has been delivered and handled, the
\* participants list of every view joined to room R holds the ids of the
\* server's participants map of R, the view's own id excepted, and each once.
C23_ListMatchesDirectory ==
    Quiescent =>
        \A c \in SocketIds :
            InRoom(c) =>
                /\ MapKeys(participants[c]) = Listed(route[c].roomName) \ {c}
                /\ Cardinality(MapKeys(participants[c])) = Len(participants[c])

\* Three views joined a room and one has left it; all has been handled.
C23_Witness ==
    /\ Quiescent
    /\ \E a \in SocketIds : \E b \in SocketIds \ {a} : \E c \in SocketIds \ {a, b} :
          /\ InRoom(a) /\ InRoom(b)
          /\ route[a].roomName = route[b].roomName
          /\ MapKeys(participants[a]) = {b}
          /\ [type |-> "user-joined", id |-> c] \in handled[a]
          /\ [type |-> "user-left", id |-> c] \in handled[a]
          /\ status[c] = "closed"

\* ------------------------------------------------ claims on the media controls
\* C24: when the screen is shared, a click on the screen share control (then
\* titled 'Stop screen share') sets isScreenShareEnabled to false and puts
\* the camera track back on the video sender of every peer connection.
C24_StopScreenShare ==
    \A c \in SocketIds :
        media[c].shareClick = "Stop screen share"
        => /\ ~media[c].isScreenShareEnabled
           /\ \A p \in DOMAIN peerConnections[c] : peerConnections[c][p].video = "camera"

\* C25: after any sequence of clicks isMicEnabled is the enabled flag of the
\* local audio track and isCameraEnabled that of the local camera track, and
\* two toggles of the same control in a row restore the flag and the track.
C25_TogglesFollowTracks ==
    \A c \in SocketIds :
        media[c].stream =>
            LET m   == media[c]
                pcs == peerConnections[c]
                mm  == MicToggled(MicToggled(m))
                cc  == CamToggled(CamToggled(m, pcs), pcs)
            IN  /\ m.isMicEnabled = m.audio
                /\ m.isCameraEnabled = m.camera
                /\ mm.isMicEnabled = m.isMicEnabled /\ mm.audio = m.audio
                /\ cc.isCameraEnabled = m.isCameraEnabled /\ cc.camera = m.camera
                /\ MicToggled(m).audio # m.audio
                /\ CamToggled(m, pcs).camera # m.camera

\* The microphone is muted and the camera is off while the screen is shared
\* with two peers.
C25_Witness ==
    \E c \in clients :
        /\ ControlsShown(c)
        /\ ~media[c].isMicEnabled
        /\ ~media[c].isCameraEnabled
        /\ media[c].isScreenShareEnabled
        /\ Cardinality(DOMAIN peerConnections[c]) = 2
        /\ \A p \in DOMAIN peerConnections[c] : peerConnections[c][p].video = "screen"

====
